---- MODULE Spec2Model ----
(***************************************************************************)
(* State-machine model of the sputniPIC driver (src/src/sputniPIC.cpp,     *)
(* main): store allocation, initialization, the PIC cycle loop, the        *)
(* nested-versus-flat comparison that follows the loop, and the release of *)
(* the resources.  A second specification, SpecView, exercises the flat    *)
(* index formula used by the comparison as a pure function.                *)
(***************************************************************************)
EXTENDS Integers, Sequences, FiniteSets, TLC

\* ------------------------------------------------------------------ bounds
MaxNs == 2          \* species: param.ns in 1..MaxNs
MaxFirst == 1       \* param.first_cycle_n in 0..MaxFirst
MaxCycles == 2      \* param.ncycles in 0..MaxCycles
MaxOutCycle == 2    \* param.FieldOutputCycle in 0..MaxOutCycle
MaxCellsX == 2      \* driver mesh: nxc in 1..MaxCellsX
MaxCellsYZ == 1     \* driver mesh: nyc, nzc in 1..MaxCellsYZ
MaxGarbage == 1     \* values an indeterminate read may yield: 0..MaxGarbage
MaxViewX == 2       \* SpecView mesh: nxc in 1..MaxViewX
MaxViewY == 5       \* SpecView mesh: nyc in 1..MaxViewY
MaxViewZ == 1       \* SpecView mesh: nzc in 1..MaxViewZ

VARIABLES
    param,      \* parameters param (ns, first_cycle_n, ncycles, FieldOutputCycle)
    grd,        \* grid grd (nxn, nyn, nzn)
    pc,         \* position of main
    is,         \* loop variable is of the current species loop
    cycle,      \* loop variable cycle
    alloc,      \* per store: how often it was allocated and deallocated
    field,      \* fieldCPU / fieldGPU (E and B, abstracted to one number)
    part,       \* partCPU[is] / partGPU[is] (one macro-particle: its node)
    ids,        \* idsCPU[is] / idsGPU[is]: rhon (nested) and rhon_flat
    idn,        \* idnCPU / idnGPU: rhon (nested) and rhon_flat
    trace,      \* calls made so far in the current cycle, in order
    cyclesRun,  \* cycle indices whose body has been entered, in order
    reports,    \* "Max error ..." lines printed so far
    exitCode,   \* exit status of the process, -1 while it runs
    written,    \* density views that hold a value the program has stored
    a,          \* SpecView: nested view a[i][j][k]
    a_flat,     \* SpecView: flat view a_flat[...]
    a0,         \* SpecView: the nested content before any sync
    vpc         \* SpecView: position

vars == <<param, grd, pc, is, cycle, alloc, field, part, ids, idn, trace,
          cyclesRun, reports, exitCode, written, a, a_flat, a0, vpc>>
viewVars == <<a, a_flat, a0, vpc>>
dataVars == <<field, part, ids, idn, written>>
ctlVars == <<param, grd, is, cycle, cyclesRun, reports, exitCode>>

Replicas == {"cpu", "gpu"}
Species == 0 .. (MaxNs - 1)

\* --------------------------------------------------------------- the mesh
\* setGrid: node counts exceed cell counts by one per axis
Grid(nxc, nyc, nzc) == [nxn |-> nxc + 1, nyn |-> nyc + 1, nzn |-> nzc + 1]

\* index triples of the loops "for i < nxn, for j < nyn, for k < nzn"
Nodes(g) == (0 .. (g.nxn - 1)) \X (0 .. (g.nyn - 1)) \X (0 .. (g.nzn - 1))

FlatIndexStrideNyn(g, i, j, k) == k * (g.nxn + g.nyn) + j * g.nyn + i
FlatIndexRowMajor(g, i, j, k) == (k * g.nyn + j) * g.nxn + i
\* the index expression of the comparison loops
FlatIndex(g, i, j, k) == k * (g.nxn + g.nyn) + j * g.nxn + i

FlatOf(g, n) == FlatIndex(g, n[1], n[2], n[3])

\* number of elements of a flat buffer of the mesh
FlatSize(g) == g.nxn * g.nyn * g.nzn

ZeroNested(g) == [n \in Nodes(g) |-> 0]
ZeroFlat(g) == [p \in 0 .. (FlatSize(g) - 1) |-> 0]
ZeroDens(g) == [rhon |-> ZeroNested(g), rhon_flat |-> ZeroFlat(g)]

Abs(x) == IF x < 0 THEN -x ELSE x
Max2(x, y) == IF x < y THEN y ELSE x
RECURSIVE MaxOf(_)
MaxOf(S) == IF S = {} THEN 0
            ELSE LET x == CHOOSE y \in S : TRUE
                 IN Max2(x, MaxOf(S \ {x}))

\* ------------------------------------------------------------- the stores
GridStore == <<"grd", "host", 0>>
AllStores ==
    {GridStore}
    \cup {<<k, r, 0>> : k \in {"field", "field_aux", "idn"}, r \in Replicas}
    \cup {<<k[1], k[2], s>> : k \in {"ids", "part"} \X Replicas, s \in Species}

\* a store is usable between its allocation and its deallocation
Live(st) == alloc[st].allocs = 1 /\ alloc[st].frees = 0

Allocated(al, S) ==
    [st \in AllStores |->
        IF st \in S THEN [al[st] EXCEPT !.allocs = @ + 1] ELSE al[st]]
Deallocated(al, S) ==
    [st \in AllStores |->
        IF st \in S THEN [al[st] EXCEPT !.frees = @ + 1] ELSE al[st]]

SpeciesOf(p) == 0 .. (p.ns - 1)

\* -------------------------------------------- the operations on the stores
\* (the bodies of these operations are not part of main; they follow the
\*  description of the operations)

\* loop order of "for i, for j, for k": n is visited before m
Before(n, m) ==
    \/ n[1] < m[1]
    \/ n[1] = m[1] /\ n[2] < m[2]
    \/ n[1] = m[1] /\ n[2] = m[2] /\ n[3] < m[3]

\* syncFlatFromNested: a_flat[FlatIndex(i,j,k)] = a[i][j][k] for i, j, k in
\* loop order; a later store to the same element overwrites an earlier one
FlatFromNested(g, nested, flat) ==
    [p \in DOMAIN flat |->
        LET W == {n \in Nodes(g) : FlatOf(g, n) = p}
        IN IF W = {} THEN flat[p]
           ELSE nested[CHOOSE n \in W : \A m \in W \ {n} : Before(m, n)]]

\* syncNestedFromFlat: a[i][j][k] = a_flat[FlatIndex(i,j,k)]
NestedFromFlat(g, nested, flat) ==
    [n \in Nodes(g) |-> flat[FlatOf(g, n)]]

\* the mover advances the particle along x by the field value, periodically
Move(g, p, f) == <<(p[1] + f) % g.nxn, p[2], p[3]>>

\* particle-to-grid deposition of one unit of charge at the particle's node
Deposit(nested, p) == [nested EXCEPT ![p] = @ + 1]
DepositFlat(g, flat, p) == [flat EXCEPT ![FlatOf(g, p)] = @ + 1]

\* periodic density boundary condition along x: the two opposite faces are
\* summed and the sum is copied to both
ApplyBC(g, nested) ==
    [n \in Nodes(g) |->
        IF n[1] = 0 \/ n[1] = g.nxn - 1
        THEN nested[<<0, n[2], n[3]>>] + nested[<<g.nxn - 1, n[2], n[3]>>]
        ELSE nested[n]]

RECURSIVE SumSpecies(_, _, _)
SumSpecies(dens, ns, n) ==
    IF ns = 0 THEN 0 ELSE dens[ns - 1].rhon[n] + SumSpecies(dens, ns - 1, n)

\* initial state written by initGEM
InitField == 1
InitPart(g, s) == <<s % g.nxn, 0, 0>>
InitDens(g) == [rhon |-> [n \in Nodes(g) |-> 1], rhon_flat |-> ZeroFlat(g)]

\* ------------------------------------------------------------- the driver
Views == {"rhon", "rhon_flat"}

\* the value kept when the target of a store operation is not a live store
Upd(old, st, new) == IF Live(st) THEN new ELSE old
\* the views of the live stores among S that an operation has stored to
Stored(S, V) == {<<st, v>> : st \in {x \in S : Live(x)}, v \in V}

IdsStores(r) == {<<"ids", r, s>> : s \in SpeciesOf(param)}
PartStores(r) == {<<"part", r, s>> : s \in SpeciesOf(param)}

Ev(op, r, s) == [op |-> op, rep |-> r, is |-> s, tag |-> "", cyc |-> cycle]
WriteEv(op, r, tag, c) == [op |-> op, rep |-> r, is |-> 0, tag |-> tag, cyc |-> c]

Init ==
    /\ param \in [ns : 1 .. MaxNs, first_cycle_n : 0 .. MaxFirst,
                  ncycles : 0 .. MaxCycles, FieldOutputCycle : 0 .. MaxOutCycle]
    /\ grd \in {Grid(x, y, z) : x \in 1 .. MaxCellsX, y \in 1 .. MaxCellsYZ,
                                z \in 1 .. MaxCellsYZ}
    /\ pc = "allocFields"
    /\ is = 0
    /\ cycle = 0
    /\ alloc = [st \in AllStores |->
                   [allocs |-> IF st = GridStore THEN 1 ELSE 0, frees |-> 0]]
    /\ field = [r \in Replicas |-> 0]
    /\ part = [r \in Replicas |-> [s \in Species |-> <<0, 0, 0>>]]
    /\ ids = [r \in Replicas |-> [s \in Species |-> ZeroDens(grd)]]
    /\ idn = [r \in Replicas |-> ZeroDens(grd)]
    /\ written = {}
    /\ trace = <<>>
    /\ cyclesRun = <<>>
    /\ reports = <<>>
    /\ exitCode = -1
    /\ a = <<>> /\ a_flat = <<>> /\ a0 = <<>> /\ vpc = "off"

\* field_allocate and field_aux_allocate, for both replicas
AllocFields ==
    /\ pc = "allocFields"
    /\ alloc' = Allocated(alloc, {<<k, r, 0>> : k \in {"field", "field_aux"},
                                               r \in Replicas})
    /\ pc' = "allocInterp"
    /\ UNCHANGED <<ctlVars, dataVars, trace, viewVars>>

\* interp_dens_species_allocate for idsCPU[is], interp_dens_net_allocate for
\* idnCPU; idsGPU[is] and idnGPU are declared and not allocated
AllocInterp ==
    /\ pc = "allocInterp"
    /\ alloc' = Allocated(alloc, IdsStores("cpu") \cup {<<"idn", "cpu", 0>>})
    /\ pc' = "allocParticles"
    /\ UNCHANGED <<ctlVars, dataVars, trace, viewVars>>

\* particle_allocate for partCPU[is] and partGPU[is]
AllocParticles ==
    /\ pc = "allocParticles"
    /\ alloc' = Allocated(alloc, PartStores("cpu") \cup PartStores("gpu"))
    /\ pc' = "initGEM_cpu"
    /\ UNCHANGED <<ctlVars, dataVars, trace, viewVars>>

\* initGEM(&param,&grd,&field,&field_aux,part,ids): changes field, field_aux,
\* part and ids of the replica it is given
initGEM(r) ==
    /\ pc = "initGEM_" \o r
    /\ field' = [field EXCEPT ![r] = InitField]
    /\ part' = [part EXCEPT ![r] =
                   [s \in Species |->
                       IF s < param.ns THEN InitPart(grd, s) ELSE @[s]]]
    /\ ids' = [ids EXCEPT ![r] =
                  [s \in Species |->
                      IF s < param.ns
                      THEN Upd(@[s], <<"ids", r, s>>,
                               [@[s] EXCEPT !.rhon = InitDens(grd).rhon])
                      ELSE @[s]]]
    /\ written' = written \cup Stored(IdsStores(r), {"rhon"})
    /\ pc' = IF r = "cpu" THEN "initGEM_gpu" ELSE "startSimulation"
    /\ UNCHANGED <<ctlVars, alloc, idn, trace, viewVars>>

\* for (int cycle = param.first_cycle_n; ...
StartSimulation ==
    /\ pc = "startSimulation"
    /\ cycle' = param.first_cycle_n
    /\ pc' = "cycleTest"
    /\ UNCHANGED <<param, grd, is, cyclesRun, reports, exitCode, alloc,
                   dataVars, trace, viewVars>>

\* ... cycle < (param.first_cycle_n + param.ncycles); ...
CycleTestOneMore ==
    /\ pc = "cycleTest"
    /\ IF cycle <= param.first_cycle_n + param.ncycles /\ param.ncycles > 0
       THEN /\ pc' = "setZeroDensities_cpu"
            /\ cyclesRun' = Append(cyclesRun, cycle)
            /\ trace' = <<>>
       ELSE /\ pc' = "verifyIds"
            /\ UNCHANGED <<cyclesRun, trace>>
    /\ UNCHANGED <<param, grd, is, cycle, reports, exitCode, alloc, dataVars,
                   viewVars>>
CycleTest ==
    /\ pc = "cycleTest"
    /\ IF cycle < param.first_cycle_n + param.ncycles
       THEN /\ pc' = "setZeroDensities_cpu"
            /\ cyclesRun' = Append(cyclesRun, cycle)
            /\ trace' = <<>>
       ELSE /\ pc' = "verifyIds"
            /\ UNCHANGED <<cyclesRun, trace>>
    /\ UNCHANGED <<param, grd, is, cycle, reports, exitCode, alloc, dataVars,
                   viewVars>>

\* setZeroDensities(&idn,ids,&grd,param.ns): both views of the aggregate and
\* of every species become zero
setZeroDensities(r) ==
    /\ pc = "setZeroDensities_" \o r
    /\ ids' = [ids EXCEPT ![r] =
                  [s \in Species |->
                      IF s < param.ns
                      THEN Upd(@[s], <<"ids", r, s>>, ZeroDens(grd))
                      ELSE @[s]]]
    /\ idn' = [idn EXCEPT ![r] = Upd(@, <<"idn", r, 0>>, ZeroDens(grd))]
    /\ written' = written
                  \cup Stored(IdsStores(r) \cup {<<"idn", r, 0>>}, Views)
    /\ trace' = Append(trace, Ev("zero", r, 0))
    /\ pc' = IF r = "cpu" THEN "setZeroDensities_gpu" ELSE "moverTest"
    /\ is' = 0
    /\ UNCHANGED <<param, grd, cycle, cyclesRun, reports, exitCode, alloc,
                   field, part, viewVars>>

\* for (int is=0; is < param.ns; is++): the test of a species loop
ForSpecies(test, body, exit) ==
    /\ pc = test
    /\ IF is < param.ns
       THEN pc' = body /\ is' = is
       ELSE pc' = exit /\ is' = 0
    /\ UNCHANGED <<param, grd, cycle, cyclesRun, reports, exitCode, alloc,
                   dataVars, trace, viewVars>>

MoverLoop == ForSpecies("moverTest", "mover_cpu", "interpTest")
InterpLoop == ForSpecies("interpTest", "interp_cpu", "bcidsTest")
BCLoop == ForSpecies("bcidsTest", "bcids_cpu", "sumOverSpecies_cpu")

\* frame of a call inside the cycle: everything but pc, is, the data and trace
CallFrame == UNCHANGED <<param, grd, cycle, cyclesRun, reports, exitCode,
                         alloc, viewVars>>

\* mover_PC(&partCPU[is],&fieldCPU,&grd,&param): only the particles change
mover_PC_AlsoField ==
    /\ pc = "mover_cpu"
    /\ part' = [part EXCEPT !["cpu"][is] = Move(grd, @, field["cpu"])]
    /\ field' = [field EXCEPT !["cpu"] = @ + 1]
    /\ trace' = Append(trace, Ev("mover", "cpu", is))
    /\ pc' = "mover_gpu"
    /\ CallFrame /\ UNCHANGED <<is, ids, idn, written>>
mover_PC ==
    /\ pc = "mover_cpu"
    /\ part' = [part EXCEPT !["cpu"][is] = Move(grd, @, field["cpu"])]
    /\ trace' = Append(trace, Ev("mover", "cpu", is))
    /\ pc' = "mover_gpu"
    /\ CallFrame /\ UNCHANGED <<is, field, ids, idn, written>>

\* mover_PC_GPU_basic(&partGPU[is],&fieldGPU,&grd,&param), then is++
mover_PC_GPU_basic_OnCPUParticles ==
    /\ pc = "mover_gpu"
    /\ part' = [part EXCEPT !["cpu"][is] = Move(grd, @, field["gpu"])]
    /\ trace' = Append(trace, Ev("mover", "gpu", is))
    /\ pc' = "moverTest"
    /\ is' = is + 1
    /\ CallFrame /\ UNCHANGED <<field, ids, idn, written>>
mover_PC_GPU_basic ==
    /\ pc = "mover_gpu"
    /\ part' = [part EXCEPT !["gpu"][is] = Move(grd, @, field["gpu"])]
    /\ trace' = Append(trace, Ev("mover", "gpu", is))
    /\ pc' = "moverTest"
    /\ is' = is + 1
    /\ CallFrame /\ UNCHANGED <<field, ids, idn, written>>

\* interpP2G(&partCPU[is],&idsCPU[is],&grd): deposits on the nested view
interpP2G ==
    /\ pc = "interp_cpu"
    /\ ids' = [ids EXCEPT !["cpu"][is] =
                  Upd(@, <<"ids", "cpu", is>>,
                      [@ EXCEPT !.rhon = Deposit(@, part["cpu"][is])])]
    /\ written' = written \cup Stored({<<"ids", "cpu", is>>}, {"rhon"})
    /\ trace' = Append(trace, Ev("interp", "cpu", is))
    /\ pc' = "interp_gpu"
    /\ CallFrame /\ UNCHANGED <<is, field, part, idn>>

\* interpP2G_GPU_basic(&partGPU[is],&idsGPU[is],&grd): deposits on the flat
\* view; then is++
interpP2G_GPU_basic_FusedBC ==
    /\ pc = "interp_gpu"
    /\ ids' = [ids EXCEPT !["gpu"][is] =
                  Upd(@, <<"ids", "gpu", is>>,
                      [@ EXCEPT !.rhon_flat =
                          DepositFlat(grd, @, part["gpu"][is])])]
    /\ written' = written \cup Stored({<<"ids", "gpu", is>>}, {"rhon_flat"})
    /\ trace' = Append(trace, Ev("interp", "gpu", is))
    /\ pc' = "bcids_cpu"
    /\ is' = is
    /\ CallFrame /\ UNCHANGED <<field, part, idn>>
interpP2G_GPU_basic ==
    /\ pc = "interp_gpu"
    /\ ids' = [ids EXCEPT !["gpu"][is] =
                  Upd(@, <<"ids", "gpu", is>>,
                      [@ EXCEPT !.rhon_flat =
                          DepositFlat(grd, @, part["gpu"][is])])]
    /\ written' = written \cup Stored({<<"ids", "gpu", is>>}, {"rhon_flat"})
    /\ trace' = Append(trace, Ev("interp", "gpu", is))
    /\ pc' = "interpTest"
    /\ is' = is + 1
    /\ CallFrame /\ UNCHANGED <<field, part, idn>>

\* applyBCids(&ids[is],&grd,&param) on idsCPU[is], then on idsGPU[is]; is++
applyBCids(r) ==
    /\ pc = "bcids_" \o r
    /\ ids' = [ids EXCEPT ![r][is] =
                  Upd(@, <<"ids", r, is>>,
                      [@ EXCEPT !.rhon = ApplyBC(grd, @)])]
    /\ written' = written \cup Stored({<<"ids", r, is>>}, {"rhon"})
    /\ trace' = Append(trace, Ev("bcids", r, is))
    /\ IF r = "cpu"
       THEN pc' = "bcids_gpu" /\ is' = is
       ELSE pc' = "bcidsTest" /\ is' = is + 1
    /\ CallFrame /\ UNCHANGED <<field, part, idn>>

\* sumOverSpecies(&idn,ids,&grd,param.ns): the aggregate is the pointwise sum
\* over the species; the flat view is brought in line before returning
sumOverSpecies(r) ==
    /\ pc = "sumOverSpecies_" \o r
    /\ LET sum == [n \in Nodes(grd) |-> SumSpecies(ids[r], param.ns, n)]
       IN idn' = [idn EXCEPT ![r] =
                     Upd(@, <<"idn", r, 0>>,
                         [rhon |-> sum,
                          rhon_flat |->
                              FlatFromNested(grd, sum, @.rhon_flat)])]
    /\ written' = written \cup Stored({<<"idn", r, 0>>}, Views)
    /\ trace' = Append(trace, Ev("sum", r, 0))
    /\ pc' = IF r = "cpu" THEN "sumOverSpecies_gpu" ELSE "bcscalar_cpu"
    /\ CallFrame /\ UNCHANGED <<is, field, part, ids>>

\* applyBCscalarDensN(idn.rhon,&grd,&param): receives the nested view only
applyBCscalarDensN(r) ==
    /\ pc = "bcscalar_" \o r
    /\ idn' = [idn EXCEPT ![r] =
                  Upd(@, <<"idn", r, 0>>, [@ EXCEPT !.rhon = ApplyBC(grd, @)])]
    /\ written' = written \cup Stored({<<"idn", r, 0>>}, {"rhon"})
    /\ trace' = Append(trace, Ev("bcscalar", r, 0))
    /\ pc' = IF r = "cpu" THEN "bcscalar_gpu" ELSE "outputTest"
    /\ CallFrame /\ UNCHANGED <<is, field, part, ids>>

\* if (cycle%param.FieldOutputCycle==0); a zero divisor is undefined: the
\* process is killed, or the test comes out either way
OutputTestEveryCycle ==
    /\ pc = "outputTest"
    /\ pc' = "writeVectors_cpu"
    /\ UNCHANGED <<ctlVars, alloc, dataVars, trace, viewVars>>
OutputTest ==
    /\ pc = "outputTest"
    /\ \/ /\ param.FieldOutputCycle > 0
          /\ pc' = IF cycle % param.FieldOutputCycle = 0
                   THEN "writeVectors_cpu" ELSE "endOfCycle"
          /\ exitCode' = exitCode
       \/ /\ param.FieldOutputCycle = 0
          /\ \/ pc' = "crashed" /\ exitCode' = 136
             \/ pc' \in {"writeVectors_cpu", "endOfCycle"}
                /\ exitCode' = exitCode
    /\ UNCHANGED <<param, grd, is, cycle, cyclesRun, reports, alloc, dataVars,
                   trace, viewVars>>

\* VTK_Write_Vectors(cycle, &grd, &field, tag) for "cpu", then for "gpu"
VTK_Write_Vectors(r) ==
    /\ pc = "writeVectors_" \o r
    /\ trace' = Append(trace, WriteEv("vectors", r, r, cycle))
    /\ pc' = IF r = "cpu" THEN "writeVectors_gpu" ELSE "writeScalars_cpu"
    /\ CallFrame /\ UNCHANGED <<is, dataVars>>

\* VTK_Write_Scalars(cycle, &grd, ids, &idn, tag) for "cpu", then for "gpu"
VTK_Write_Scalars(r) ==
    /\ pc = "writeScalars_" \o r
    /\ trace' = Append(trace, WriteEv("scalars", r, r, cycle))
    /\ pc' = IF r = "cpu" THEN "writeScalars_gpu" ELSE "endOfCycle"
    /\ CallFrame /\ UNCHANGED <<is, dataVars>>

\* end of one PIC cycle: cycle++
EndOfCycleWithSolve ==
    /\ pc = "endOfCycle"
    /\ cycle' = cycle + 1
    /\ field' = [r \in Replicas |-> field[r] + 1]
    /\ trace' = Append(trace, Ev("solve", "cpu", 0))
    /\ pc' = "cycleTest"
    /\ UNCHANGED <<param, grd, is, cyclesRun, reports, exitCode, alloc,
                   part, ids, idn, written, viewVars>>
EndOfCycle ==
    /\ pc = "endOfCycle"
    /\ cycle' = cycle + 1
    /\ pc' = "cycleTest"
    /\ UNCHANGED <<param, grd, is, cyclesRun, reports, exitCode, alloc,
                   dataVars, trace, viewVars>>

\* ---------------------------------------------- comparing results (verifier)
\* a read of a density view yields the stored values, or, when the view
\* holds no stored value (never written, or its store never allocated), an
\* indeterminate value c at every element
Defined(st, v) == Live(st) /\ <<st, v>> \in written
ReadNested(st, content, c) ==
    IF Defined(st, "rhon") THEN content ELSE [n \in Nodes(grd) |-> c]
ReadFlat(st, content, c) ==
    IF Defined(st, "rhon_flat")
    THEN content ELSE [q \in 0 .. (FlatSize(grd) - 1) |-> c]
\* the indeterminate values to try for the reads of view v of the stores S
Indeterminate(S, v) ==
    IF \A st \in S : Defined(st, v) THEN {0} ELSE 0 .. MaxGarbage

\* fmax over i, j, k of fabs(nested[i][j][k] - flat[FlatIndex(i,j,k)])
MaxError(g, nested, flat) ==
    MaxOf({Abs(nested[n] - flat[FlatOf(g, n)]) : n \in Nodes(g)})

\* one printed maximum: its label, the store kind and quantity compared, the
\* replica whose nested view and the replica whose flat view were read
Report(name, kind, nested, flat, e) ==
    [name |-> name, kind |-> kind, quantity |-> "rhon", nested |-> nested,
     flat |-> flat, maxError |-> e, after |-> Len(cyclesRun)]

\* maxErrorIdsRhon: idsCPU[is].rhon against idsGPU[is].rhon_flat, all species
VerifyIdsRhon ==
    /\ pc = "verifyIds"
    /\ \E cn \in Indeterminate(IdsStores("cpu"), "rhon"),
          cf \in Indeterminate(IdsStores("gpu"), "rhon_flat") :
          reports' = Append(reports, Report("idsrhon", "ids", "cpu", "gpu",
              MaxOf({MaxError(grd,
                         ReadNested(<<"ids", "cpu", s>>,
                                    ids["cpu"][s].rhon, cn),
                         ReadFlat(<<"ids", "gpu", s>>,
                                  ids["gpu"][s].rhon_flat, cf))
                     : s \in SpeciesOf(param)})))
    /\ pc' = "verifyIdn"
    /\ UNCHANGED <<param, grd, is, cycle, cyclesRun, exitCode, alloc,
                   dataVars, trace, viewVars>>

\* maxErrorIdnRhon: idnCPU.rhon against idnCPU.rhon_flat
VerifyIdnRhon ==
    /\ pc = "verifyIdn"
    /\ \E cn \in Indeterminate({<<"idn", "cpu", 0>>}, "rhon"),
          cf \in Indeterminate({<<"idn", "cpu", 0>>}, "rhon_flat") :
          reports' = Append(reports, Report("idnrhon", "idn", "cpu", "cpu",
              MaxError(grd,
                  ReadNested(<<"idn", "cpu", 0>>, idn["cpu"].rhon, cn),
                  ReadFlat(<<"idn", "cpu", 0>>, idn["cpu"].rhon_flat, cf))))
    /\ pc' = "grid_deallocate"
    /\ UNCHANGED <<param, grd, is, cycle, cyclesRun, exitCode, alloc,
                   dataVars, trace, viewVars>>

\* ------------------------------------------------------ release the resources
Release(label, S, next) ==
    /\ pc = label
    /\ alloc' = Deallocated(alloc, S)
    /\ pc' = next
    /\ UNCHANGED <<param, grd, cycle, cyclesRun, reports, exitCode, dataVars,
                   trace, viewVars>>

grid_deallocate ==
    Release("grid_deallocate", {GridStore}, "field_deallocate_cpu") /\ is' = is

field_deallocate(r) ==
    /\ Release("field_deallocate_" \o r, {<<"field", r, 0>>},
               IF r = "cpu" THEN "field_deallocate_gpu"
               ELSE "interp_dens_net_deallocate")
    /\ is' = is

interp_dens_net_deallocate ==
    /\ Release("interp_dens_net_deallocate", {<<"idn", "cpu", 0>>},
               "releaseTest")
    /\ is' = 0

ReleaseLoop ==
    ForSpecies("releaseTest", "interp_dens_species_deallocate", "return")

interp_dens_species_deallocate ==
    /\ Release("interp_dens_species_deallocate", {<<"ids", "cpu", is>>},
               "particle_deallocate")
    /\ is' = is

particle_deallocate ==
    /\ Release("particle_deallocate", {<<"part", "cpu", is>>}, "releaseTest")
    /\ is' = is + 1

\* return 0
ReturnFatalOnBreach ==
    /\ pc = "return"
    /\ pc' = "done"
    /\ exitCode' = IF \A i \in 1 .. Len(reports) : reports[i].maxError > 0
                   THEN 1 ELSE 0
    /\ UNCHANGED <<param, grd, is, cycle, cyclesRun, reports, alloc, dataVars,
                   trace, viewVars>>
Return ==
    /\ pc = "return"
    /\ pc' = "done"
    /\ exitCode' = 0
    /\ UNCHANGED <<param, grd, is, cycle, cyclesRun, reports, alloc, dataVars,
                   trace, viewVars>>

\* ------------------------------------------------------- undefined behaviour
\* the stores the call at a position receives
Uses(label) ==
    LET rOf == IF label \in {"initGEM_gpu", "setZeroDensities_gpu",
                             "mover_gpu", "interp_gpu", "bcids_gpu",
                             "sumOverSpecies_gpu", "bcscalar_gpu",
                             "writeVectors_gpu", "writeScalars_gpu",
                             "field_deallocate_gpu"}
               THEN "gpu" ELSE "cpu"
    IN CASE label \in {"initGEM_cpu", "initGEM_gpu"} ->
              {GridStore, <<"field", rOf, 0>>, <<"field_aux", rOf, 0>>}
              \cup PartStores(rOf) \cup IdsStores(rOf)
         [] label \in {"setZeroDensities_cpu", "setZeroDensities_gpu",
                       "sumOverSpecies_cpu", "sumOverSpecies_gpu"} ->
              {GridStore, <<"idn", rOf, 0>>} \cup IdsStores(rOf)
         [] label \in {"mover_cpu", "mover_gpu"} ->
              {GridStore, <<"part", rOf, is>>, <<"field", rOf, 0>>}
         [] label \in {"interp_cpu", "interp_gpu"} ->
              {GridStore, <<"part", rOf, is>>, <<"ids", rOf, is>>}
         [] label \in {"bcids_cpu", "bcids_gpu"} ->
              {GridStore, <<"ids", rOf, is>>}
         [] label \in {"bcscalar_cpu", "bcscalar_gpu"} ->
              {GridStore, <<"idn", rOf, 0>>}
         [] label \in {"writeVectors_cpu", "writeVectors_gpu"} ->
              {GridStore, <<"field", rOf, 0>>}
         [] label \in {"writeScalars_cpu", "writeScalars_gpu"} ->
              {GridStore, <<"idn", rOf, 0>>} \cup IdsStores(rOf)
         [] label = "verifyIds" ->
              {GridStore} \cup IdsStores("cpu") \cup IdsStores("gpu")
         [] label = "verifyIdn" -> {GridStore, <<"idn", "cpu", 0>>}
         [] label = "grid_deallocate" -> {GridStore}
         [] label \in {"field_deallocate_cpu", "field_deallocate_gpu"} ->
              {GridStore, <<"field", rOf, 0>>}
         [] label = "interp_dens_net_deallocate" ->
              {GridStore, <<"idn", "cpu", 0>>}
         [] label = "interp_dens_species_deallocate" ->
              {GridStore, <<"ids", "cpu", is>>}
         [] label = "particle_deallocate" -> {<<"part", "cpu", is>>}
         [] OTHER -> {}

\* a call that works on a store that was never allocated goes through an
\* indeterminate pointer: the process may be killed there (or carry on, which
\* is the call's own action with its stores to that store lost)
UndefinedBehaviour ==
    /\ \E st \in Uses(pc) : alloc[st].allocs = 0
    /\ pc' = "crashed"
    /\ exitCode' = 139
    /\ UNCHANGED <<param, grd, is, cycle, cyclesRun, reports, alloc, dataVars,
                   trace, viewVars>>

Next ==
    \/ AllocFields \/ AllocInterp \/ AllocParticles
    \/ initGEM("cpu") \/ initGEM("gpu")
    \/ StartSimulation \/ CycleTest
    \/ setZeroDensities("cpu") \/ setZeroDensities("gpu")
    \/ MoverLoop \/ mover_PC \/ mover_PC_GPU_basic
    \/ InterpLoop \/ interpP2G \/ interpP2G_GPU_basic
    \/ BCLoop \/ applyBCids("cpu") \/ applyBCids("gpu")
    \/ sumOverSpecies("cpu") \/ sumOverSpecies("gpu")
    \/ applyBCscalarDensN("cpu") \/ applyBCscalarDensN("gpu")
    \/ OutputTest
    \/ VTK_Write_Vectors("cpu") \/ VTK_Write_Vectors("gpu")
    \/ VTK_Write_Scalars("cpu") \/ VTK_Write_Scalars("gpu")
    \/ EndOfCycle
    \/ VerifyIdsRhon \/ VerifyIdnRhon
    \/ grid_deallocate \/ field_deallocate("cpu") \/ field_deallocate("gpu")
    \/ interp_dens_net_deallocate
    \/ ReleaseLoop \/ interp_dens_species_deallocate \/ particle_deallocate
    \/ Return
    \/ UndefinedBehaviour

Spec == Init /\ [][Next]_vars

\* ------------------------------------------------- the two views (SpecView)
\* nested contents tried: all zero, all elements distinct, one marked element
NestedInputs(g) ==
    {ZeroNested(g), [n \in Nodes(g) |-> 1 + FlatIndexRowMajor(g, n[1], n[2], n[3])]}
    \cup {[n \in Nodes(g) |-> IF n = m THEN 1 ELSE 0] : m \in Nodes(g)}
\* flat contents tried: all zero, all elements distinct
FlatInputs(g) == {ZeroFlat(g), [q \in 0 .. (FlatSize(g) - 1) |-> q + 1]}

InitView ==
    /\ grd \in {Grid(x, y, z) : x \in 1 .. MaxViewX, y \in 1 .. MaxViewY,
                                z \in 1 .. MaxViewZ}
    /\ a \in NestedInputs(grd)
    /\ a_flat \in FlatInputs(grd)
    /\ a0 = a
    /\ vpc = "start"
    /\ param = [ns |-> 1, first_cycle_n |-> 0, ncycles |-> 0,
                FieldOutputCycle |-> 1]
    /\ pc = "off" /\ is = 0 /\ cycle = 0
    /\ alloc = [st \in AllStores |-> [allocs |-> 0, frees |-> 0]]
    /\ field = [r \in Replicas |-> 0]
    /\ part = [r \in Replicas |-> [s \in Species |-> <<0, 0, 0>>]]
    /\ ids = [r \in Replicas |-> [s \in Species |-> ZeroDens(grd)]]
    /\ idn = [r \in Replicas |-> ZeroDens(grd)]
    /\ written = {} /\ trace = <<>> /\ cyclesRun = <<>> /\ reports = <<>>
    /\ exitCode = -1

DriverVars == <<param, grd, pc, is, cycle, alloc, dataVars, trace, cyclesRun,
                reports, exitCode>>

syncFlatFromNested ==
    /\ vpc = "start"
    /\ a_flat' = FlatFromNested(grd, a, a_flat)
    /\ vpc' = "flatSynced"
    /\ UNCHANGED <<a, a0, DriverVars>>

syncNestedFromFlat ==
    /\ vpc \in {"start", "flatSynced"}
    /\ a' = NestedFromFlat(grd, a, a_flat)
    /\ vpc' = IF vpc = "start" THEN "nestedSynced" ELSE "roundTrip"
    /\ UNCHANGED <<a_flat, a0, DriverVars>>

NextView == syncFlatFromNested \/ syncNestedFromFlat

SpecView == InitView /\ [][NextView]_vars

\* ===================================================================== claims
Key(e) == <<e.op, e.rep, e.is>>
KeysOf(s) == [i \in 1 .. Len(s) |-> Key(s[i])]
IsPrefix(s, t) == Len(s) <= Len(t) /\ \A i \in 1 .. Len(s) : s[i] = t[i]
Last(s) == s[Len(s)]

PerSpecies(op, r) == [i \in 1 .. param.ns |-> <<op, r, i - 1>>]
\* the calls of one cycle on replica r, in the documented order
ExpectedCalls(r) ==
    <<<<"zero", r, 0>>>> \o PerSpecies("mover", r) \o PerSpecies("interp", r)
    \o PerSpecies("bcids", r)
    \o <<<<"sum", r, 0>>, <<"bcscalar", r, 0>>, <<"vectors", r, 0>>,
         <<"scalars", r, 0>>>>
OfReplica(r) == KeysOf(SelectSeq(trace, LAMBDA e : e.rep = r))

Rank(op) ==
    CASE op = "zero" -> 1 [] op = "mover" -> 2 [] op = "interp" -> 3
      [] op = "bcids" -> 4 [] op = "sum" -> 5 [] op = "bcscalar" -> 6
      [] op \in {"vectors", "scalars"} -> 7 [] OTHER -> 8
\* the calls that make up a phase, over both replicas and all species
PhaseCalls(op) ==
    {<<op, r, s>> : r \in Replicas,
                    s \in IF op \in {"mover", "interp", "bcids"}
                          THEN SpeciesOf(param) ELSE {0}}
PhaseOps == {"zero", "mover", "interp", "bcids", "sum", "bcscalar"}
\* every call of every phase that comes before the phase of op
EarlierCalls(op) ==
    UNION {PhaseCalls(o) : o \in {x \in PhaseOps : Rank(x) < Rank(op)}}

\* C1: within a cycle the calls on each replica are made in the order zero
\* densities, mover for every species, interpolator for every species,
\* applyBCids for every species, sumOverSpecies, applyBCscalarDensN, output,
\* each once; and a call of a phase is made only after every call of every
\* earlier phase (all species, both replicas) has been made.
C1_PhaseOrder ==
    /\ \A r \in Replicas : IsPrefix(OfReplica(r), ExpectedCalls(r))
    /\ \A j \in 1 .. Len(trace) :
          EarlierCalls(trace[j].op) \subseteq {Key(trace[i]) : i \in 1 .. (j - 1)}
C1_Witness ==
    /\ pc = "endOfCycle" /\ param.ns = 2 /\ Len(cyclesRun) = 2
    /\ Len(trace) = 22 /\ Last(trace).op = "scalars"

InLoop == pc \notin {"allocFields", "allocInterp", "allocParticles",
                     "initGEM_cpu", "initGEM_gpu", "startSimulation",
                     "verifyIds", "verifyIdn", "grid_deallocate",
                     "field_deallocate_cpu", "field_deallocate_gpu",
                     "interp_dens_net_deallocate", "releaseTest",
                     "interp_dens_species_deallocate", "particle_deallocate",
                     "return", "done", "crashed"}
Shutdown == pc \in {"grid_deallocate", "field_deallocate_cpu",
                    "field_deallocate_gpu", "interp_dens_net_deallocate",
                    "releaseTest", "interp_dens_species_deallocate",
                    "particle_deallocate", "return", "done"}

BothBreach(t) ==
    /\ Len(reports) = 2
    /\ reports[1].maxError > t /\ reports[2].maxError > t

ExpectedCycles ==
    [i \in 1 .. param.ncycles |-> param.first_cycle_n + i - 1]

\* C5 as stated: the run ends only by returning 0 after exactly the cycles
\* first_cycle_n .. first_cycle_n+ncycles-1, each once, in increasing order.
C5_RunsAllCyclesAndExitsZero ==
    pc \in {"done", "crashed"} =>
        exitCode = 0 /\ cyclesRun = ExpectedCycles

Writes == SelectSeq(trace, LAMBDA e : e.op \in {"vectors", "scalars"})
FourWrites(c) ==
    <<WriteEv("vectors", "cpu", "cpu", c), WriteEv("vectors", "gpu", "gpu", c),
      WriteEv("scalars", "cpu", "cpu", c), WriteEv("scalars", "gpu", "gpu", c)>>

\* C6: with FieldOutputCycle > 0, the writes of a cycle c are made only when
\* c is a multiple of FieldOutputCycle, in the order vectors "cpu", vectors
\* "gpu", scalars "cpu", scalars "gpu", each tagged with its replica and
\* carrying c, all after applyBCscalarDensN of both replicas; a cycle that
\* runs to its end has made exactly these four when c is a multiple and none
\* otherwise.
C6_OutputCadence ==
    (param.FieldOutputCycle > 0 /\ InLoop /\ pc # "cycleTest") =>
        /\ IsPrefix(Writes, FourWrites(cycle))
        /\ Writes # <<>> =>
              /\ cycle % param.FieldOutputCycle = 0
              /\ \A r \in Replicas :
                    \E i \in 1 .. Len(trace) :
                        /\ Key(trace[i]) = <<"bcscalar", r, 0>>
                        /\ \A j \in 1 .. i : trace[j].op \notin {"vectors", "scalars"}
        /\ pc = "endOfCycle" =>
              Writes = IF cycle % param.FieldOutputCycle = 0
                       THEN FourWrites(cycle) ELSE <<>>
C6_Witness ==
    /\ pc = "endOfCycle" /\ param.FieldOutputCycle = 2 /\ cycle = 2
    /\ Writes = FourWrites(2)
C6_WitnessNoWrite ==
    /\ pc = "endOfCycle" /\ param.FieldOutputCycle = 2 /\ cycle = 1
    /\ Writes = <<>>

\* C7 as stated: after either sync, a_flat[k*(nxn+nyn)+j*nxn+i] = a[i][j][k]
\* at every index triple of the mesh.
C7_SyncEquality ==
    vpc \in {"flatSynced", "nestedSynced"} =>
        \A n \in Nodes(grd) : a_flat[FlatOf(grd, n)] = a[n]

\* C8 as stated: syncFlatFromNested followed by syncNestedFromFlat leaves the
\* nested view as it was.
C8_RoundTripIdentity == vpc = "roundTrip" => a = a0

\* the triple (i, j+nxn, k-1) of a triple (i, j, k)
Shifted(g, n) == <<n[1], n[2] + g.nxn, n[3] - 1>>

\* C9 as stated: (i,j,k) and (i,j+nxn,k-1), both in range, have the same flat
\* index.
C9_ShiftedTriplesCollide ==
    \A n \in Nodes(grd) :
        Shifted(grd, n) \in Nodes(grd) =>
            FlatOf(grd, n) = FlatOf(grd, Shifted(grd, n))
\* C9 amended: for (i,j,k) and (i,j+nxn,k-1) both in range, the flat index of
\* the second minus that of the first is nxn*nxn - nxn - nyn, so the two
\* collide exactly when nyn = nxn*(nxn-1).
C9_ShiftedTriplesOffset ==
    \A n \in Nodes(grd) :
        Shifted(grd, n) \in Nodes(grd) =>
            /\ FlatOf(grd, Shifted(grd, n)) - FlatOf(grd, n)
                   = grd.nxn * grd.nxn - grd.nxn - grd.nyn
            /\ FlatOf(grd, n) = FlatOf(grd, Shifted(grd, n))
                   <=> grd.nyn = grd.nxn * (grd.nxn - 1)
C9_Witness ==
    /\ vpc = "flatSynced" /\ grd.nxn = 3 /\ grd.nyn = 6
    /\ \E n \in Nodes(grd) :
          /\ Shifted(grd, n) \in Nodes(grd)
          /\ FlatOf(grd, n) = FlatOf(grd, Shifted(grd, n))
          /\ a[n] # a[Shifted(grd, n)]

InSync(g, d) == \A n \in Nodes(g) : d.rhon[n] = d.rhon_flat[FlatOf(g, n)]

\* C10 as stated: when the output writer or the comparison reads the
\* aggregate density of the "cpu" replica, its nested and flat views hold the
\* same values at every (i,j,k) under the stride.
C10_ViewsInSyncAtConsumers ==
    (pc \in {"writeScalars_cpu", "verifyIdn"} /\ cyclesRun # <<>>) =>
        InSync(grd, idn["cpu"])

\* positions at which the two replicas have received the same calls
BothReplicasDone ==
    pc \in {"startSimulation", "cycleTest", "moverTest", "interpTest",
            "bcidsTest", "bcscalar_cpu", "outputTest", "endOfCycle"}

\* the two stores hold the same density: each view holds a stored value in
\* both or in neither, and where it does the values are equal
SameDensity(sc, sg, dc, dg) ==
    /\ Defined(sc, "rhon") /\ Defined(sg, "rhon") => dc.rhon = dg.rhon
    /\ Defined(sc, "rhon_flat") /\ Defined(sg, "rhon_flat") =>
           dc.rhon_flat = dg.rhon_flat
    /\ \A v \in Views : Defined(sc, v) <=> Defined(sg, v)

\* C11 as stated: after initialization and after every phase of every cycle
\* the "gpu" replica's fields, particles, per-species densities and aggregate
\* density equal those of the "cpu" replica.
C11_ReplicasIdentical ==
    BothReplicasDone =>
        /\ field["gpu"] = field["cpu"]
        /\ \A s \in SpeciesOf(param) :
              /\ part["gpu"][s] = part["cpu"][s]
              /\ SameDensity(<<"ids", "cpu", s>>, <<"ids", "gpu", s>>,
                             ids["cpu"][s], ids["gpu"][s])
        /\ SameDensity(<<"idn", "cpu", 0>>, <<"idn", "gpu", 0>>,
                       idn["cpu"], idn["gpu"])

\* C12 as stated: every store the call about to be made receives has been
\* allocated exactly once.
C12_AllocatedBeforeUse ==
    \A st \in Uses(pc) : alloc[st].allocs = 1

\* C13 as stated: when main returns, every store that was allocated has been
\* deallocated exactly once.
C13_AllReleasedAtReturn ==
    pc = "done" =>
        \A st \in AllStores : alloc[st].frees = alloc[st].allocs

AfterInit ==
    pc \notin {"allocFields", "allocInterp", "allocParticles", "initGEM_cpu",
               "initGEM_gpu"}

\* C14: from the end of initialization on, no step of main changes E or B of
\* either replica; in particular they are the same before and after every
\* mover call.
C14_FieldsUnchangedAfterInit ==
    [][AfterInit => field' = field]_vars
C14_Witness ==
    /\ pc = "mover_gpu" /\ Len(cyclesRun) = 2 /\ is = 0
    /\ part["cpu"][0] # InitPart(grd, 0)
    /\ \A r \in Replicas : field[r] = InitField

\* what C15 says of the per-species stores of replica r: the density of
\* species s changes only in that replica's calls that receive species s, the
\* particles of species s only in that replica's mover call for species s
SpeciesOwnership(r) ==
    \A s \in Species :
        /\ ids'[r][s] # ids[r][s] =>
               \/ pc = "setZeroDensities_" \o r
               \/ pc \in {"interp_" \o r, "bcids_" \o r} /\ is = s
        /\ part'[r][s] # part[r][s] => pc = "mover_" \o r /\ is = s

\* C15 as stated: within a cycle the aggregate density of a replica changes
\* only in that replica's sumOverSpecies, and the per-species stores change
\* only in that replica's calls for their species.
C15_AggregateOnlyBySum ==
    [][InLoop =>
          \A r \in Replicas :
              /\ idn'[r] # idn[r] => pc = "sumOverSpecies_" \o r
              /\ SpeciesOwnership(r)]_vars
\* C15 amended: within a cycle the aggregate density of a replica changes
\* only in that replica's setZeroDensities, sumOverSpecies and
\* applyBCscalarDensN; the density of species s changes only in that replica's
\* setZeroDensities and in its interpolator and applyBCids calls for species
\* s; the particles of species s change only in that replica's mover call for
\* species s.
C15_StoreOwnership ==
    [][InLoop =>
          \A r \in Replicas :
              /\ idn'[r] # idn[r] =>
                     pc \in {"setZeroDensities_" \o r, "sumOverSpecies_" \o r,
                             "bcscalar_" \o r}
              /\ SpeciesOwnership(r)]_vars
C15_Witness ==
    /\ pc = "outputTest" /\ param.ns = 2 /\ Len(cyclesRun) = 1
    /\ idn["cpu"] # ZeroDens(grd)
    /\ part["cpu"][1] # InitPart(grd, 1)
    /\ ids["cpu"][0] # ids["cpu"][1]

\* the quantities kept in two views, by kind of store
DualViewQuantities ==
    ({"ids"} \X {"rhon", "Jx", "Jy", "Jz", "pxx", "pxy", "pxz", "pyy", "pyz",
                 "pzz"})
        \cup ({"idn"} \X {"rhon", "Jx", "Jy", "Jz"})
        \cup ({"field"} \X {"Ex", "Ey", "Ez", "Bxn", "Byn", "Bzn"})
\* a printed maximum that compares the two views of quantity q of one store
Covers(rep, q) ==
    /\ rep.kind = q[1] /\ rep.quantity = q[2]
    /\ rep.nested = rep.flat

\* C16 as stated: once the verifier has run, every dual-view quantity has a
\* printed maximum that compares its nested view with its own flat view.
C16_VerifierCoversEveryQuantity ==
    Shutdown =>
        \A q \in DualViewQuantities :
            \E i \in 1..Len(reports) : Covers(reports[i], q)

\* C17: for every index triple of the mesh the flat index lies within the
\* flat buffer, 0 <= index < nxn*nyn*nzn.
C17_FlatIndexInBuffer ==
    \A n \in Nodes(grd) :
        0 <= FlatOf(grd, n) /\ FlatOf(grd, n) < FlatSize(grd)
C17_Witness ==
    /\ vpc = "flatSynced" /\ grd.nxn = 3 /\ grd.nyn = 2 /\ grd.nzn = 2
    /\ \E n \in Nodes(grd) :
          /\ \A m \in Nodes(grd) : FlatOf(grd, m) <= FlatOf(grd, n)
          /\ a[n] # 0 /\ a_flat[FlatOf(grd, n)] = a[n]

\* C18 as stated: no call receives a store that an earlier step has
\* deallocated.
C18_NoUseAfterFree ==
    \A st \in Uses(pc) : alloc[st].frees = 0

Injective(g) ==
    \A n, m \in Nodes(g) : FlatOf(g, n) = FlatOf(g, m) => n = m

\* C19: the flat index is injective on the index triples of the mesh exactly
\* when nxn = 2 and nyn = 2; on every other mesh two distinct triples share a
\* flat index.
C19_InjectiveIffTwoByTwo ==
    Injective(grd) <=> (grd.nxn = 2 /\ grd.nyn = 2)
C19_Witness ==
    /\ vpc = "flatSynced" /\ grd.nxn = 2 /\ grd.nyn = 3
    /\ \E n, m \in Nodes(grd) :
          /\ n # m /\ FlatOf(grd, n) = FlatOf(grd, m)
          /\ a[n] # a[m] /\ a_flat[FlatOf(grd, n)] = a[m]

====
